---- MODULE Spec2Model ----
(***************************************************************************)
(* Model of the fine-tuning script src/test.py: the JSON sample source     *)
(* (JSONDataset), the sample formatter (prepare_sample_text), the packing  *)
(* stream the script builds over them (ConstantLengthDataset, constructed  *)
(* in get_dataset) and the checkpoint callback                             *)
(* (SavePeftModelCallback.on_save).                                        *)
(*                                                                         *)
(* Texts are sequences of one-character strings; token ids are integers.   *)
(* Three specifications share the variables:                               *)
(*   SpecSource  loading data.json, indexed access, formatting a sample    *)
(*   SpecStream  pulling packed blocks from the stream                     *)
(*   SpecSave    the trainer stepping and invoking on_save                 *)
(***************************************************************************)
EXTENDS Integers, Sequences, FiniteSets, TLC

VARIABLES
    file,        \* content of data.json as the parser sees it
    data,        \* JSONDataset.data (the result of json.load)
    loaded,      \* JSONDataset.__init__ has returned
    loadErr,     \* the exception __init__ raised, "" when none
    atResult,    \* outcome of the last __getitem__ call
    fmtResult,   \* outcome of the last prepare_sample_text call
    seq_length,  \* packing stream: block length
    infinite,    \* packing stream: wrap around at the end of the source
    cursor,      \* packing stream: index of the next sample to fetch
    buffer,      \* packing stream: Token Buffer
    emitted,     \* blocks handed to the caller so far, in order
    status,      \* packing stream: "open", "ended" or the error raised
    consumed,    \* number of samples fetched and appended so far
    output_dir,  \* args.output_dir
    global_step, \* state.global_step
    fs,          \* files on disk: set of <<directory path, file name>>
    lastSave     \* record of the last on_save call

srcVars == <<file, data, loaded, loadErr, atResult, fmtResult>>
strVars == <<seq_length, infinite, cursor, buffer, emitted, status, consumed>>
savVars == <<output_dir, global_step, fs, lastSave>>
vars == <<srcVars, strVars, savVars>>

-----------------------------------------------------------------------------
(* Bounds of the model *)

MaxSamples == 2
MaxSeqLen == 2
MaxPulls == 5
MaxStep == 20

-----------------------------------------------------------------------------
(* Texts and the input file *)

Strings == {<<>>, <<"a">>}

FieldShapes == {{"query", "response"}, {"query", "resp"}, {"query"},
                {"query", "response", "resp"}}

\* JSON objects data.json may hold: field name -> string value
Records == UNION {[S -> Strings] : S \in FieldShapes}

NoSample == [f \in {"none"} |-> <<>>]

Arrays == UNION {[1..n -> Records] : n \in 0..MaxSamples}

\* what open()/json.load can meet: text that is not JSON, a JSON object that
\* is not an array, or an array of objects
FileContents ==
    {[kind |-> "invalid", items |-> <<>>]}
    \cup {[kind |-> "object", items |-> <<r>>] : r \in Records}
    \cup {[kind |-> "array", items |-> a] : a \in Arrays}

NoData == [kind |-> "none", items |-> <<>>]

\* the input-file contract of the specification: an array of objects that
\* each carry query and response
IsSample(r) == {"query", "response"} \subseteq DOMAIN r

WellFormed(f) ==
    /\ f.kind = "array"
    /\ \A i \in 1..Len(f.items) : IsSample(f.items[i])

-----------------------------------------------------------------------------
(* JSONDataset *)

\* json.load: raises on text that is not JSON, returns any JSON value as is
json_load(f) ==
    IF f.kind = "invalid"
    THEN [err |-> "JSONDecodeError", val |-> NoData]
    ELSE [err |-> "", val |-> f]

\* JSONDataset.__len__
DatasetLen(d) ==
    IF d.kind = "array" THEN Len(d.items)
    ELSE IF d.kind = "object" THEN Cardinality(DOMAIN d.items[1])
    ELSE 0

GetItemPrev(d, idx) ==
    IF d.kind = "object"
    THEN [err |-> "KeyError", val |-> NoSample]
    ELSE LET n == Len(d.items)
             j == idx - 1 IN
         IF 0 <= j /\ j < n
         THEN [err |-> "", val |-> d.items[j + 1]]
         ELSE IF -n <= j /\ j < 0
         THEN [err |-> "", val |-> d.items[n + j + 1]]
         ELSE [err |-> "IndexError", val |-> NoSample]

GetItemNoNegative(d, idx) ==
    IF d.kind = "object"
    THEN [err |-> "KeyError", val |-> NoSample]
    ELSE IF 0 <= idx /\ idx < Len(d.items)
    THEN [err |-> "", val |-> d.items[idx + 1]]
    ELSE [err |-> "IndexError", val |-> NoSample]

\* JSONDataset.__getitem__: self.data[idx] with Python's list indexing
GetItem(d, idx) ==
    IF d.kind = "object"
    THEN [err |-> "KeyError", val |-> NoSample]
    ELSE LET n == Len(d.items) IN
         IF 0 <= idx /\ idx < n
         THEN [err |-> "", val |-> d.items[idx + 1]]
         ELSE IF -n <= idx /\ idx < 0
         THEN [err |-> "", val |-> d.items[n + idx + 1]]
         ELSE [err |-> "IndexError", val |-> NoSample]

-----------------------------------------------------------------------------
(* prepare_sample_text *)

QuestionPrefix == <<"Q", "u", "e", "s", "t", "i", "o", "n", ":", " ">>
AnswerInfix == <<"\n", "\n", "A", "n", "s", "w", "e", "r", ":", " ">>

\* f"Question: {example['query']}\n\nAnswer: {example['resp']}"
prepare_sample_text(example) ==
    IF "query" \notin DOMAIN example
    THEN [err |-> "KeyError: query", text |-> <<>>]
    ELSE IF "resp" \notin DOMAIN example
    THEN [err |-> "KeyError: resp", text |-> <<>>]
    ELSE [err |-> "",
          text |-> QuestionPrefix \o example["query"]
                   \o AnswerInfix \o example["resp"]]

\* the Formatted Text of the specification, for a record with both fields
FormattedText(r) ==
    QuestionPrefix \o r["query"] \o AnswerInfix \o r["response"]

-----------------------------------------------------------------------------
(* Sample source operations *)

Load ==
    /\ ~loaded
    /\ loadErr = ""
    /\ LET r == json_load(file) IN
       /\ loadErr' = r.err
       /\ loaded' = (r.err = "")
       /\ data' = r.val
    /\ UNCHANGED <<file, atResult, fmtResult, strVars, savVars>>

NoAt == [called |-> FALSE, idx |-> 0, err |-> "", val |-> NoSample]

At(idx) ==
    /\ loaded
    /\ LET r == GetItem(data, idx) IN
       atResult' = [called |-> TRUE, idx |-> idx, err |-> r.err, val |-> r.val]
    /\ UNCHANGED <<file, data, loaded, loadErr, fmtResult, strVars, savVars>>

NoFmt == [called |-> FALSE, sample |-> NoSample, err |-> "", text |-> <<>>]

\* the formatter applied to the sample at a valid position
Format(idx) ==
    /\ loaded
    /\ data.kind = "array"
    /\ idx \in 0..(Len(data.items) - 1)
    /\ LET s == GetItem(data, idx).val
           r == prepare_sample_text(s) IN
       fmtResult' = [called |-> TRUE, sample |-> s, err |-> r.err, text |-> r.text]
    /\ UNCHANGED <<file, data, loaded, loadErr, atResult, strVars, savVars>>

Indices == (-(MaxSamples + 1))..(MaxSamples + 1)

-----------------------------------------------------------------------------
(* Tokenizer boundary: tokenize(text) -> ids, one id per character *)

Ord(c) ==
    CASE c = "\n" -> 10 [] c = " " -> 32 [] c = ":" -> 58
      [] c = "A" -> 65 [] c = "Q" -> 81 [] c = "a" -> 97
      [] c = "e" -> 101 [] c = "i" -> 105 [] c = "n" -> 110
      [] c = "o" -> 111 [] c = "r" -> 114 [] c = "s" -> 115
      [] c = "t" -> 116 [] c = "u" -> 117 [] c = "w" -> 119

Tokenize(text) == [i \in 1..Len(text) |-> Ord(text[i])]

\* the end-of-text id appended after every sample
EndOfText == 0

-----------------------------------------------------------------------------
(* Packing stream built by get_dataset *)

\* seq_length=128 in get_dataset
SEQ_LENGTH == 128

SeqLengths == (1..MaxSeqLen) \cup {10, 25, SEQ_LENGTH}

\* the cursor after one more sample: wraps in infinite mode
Advance(cur, n, inf) == IF inf THEN (cur + 1) % n ELSE cur + 1

\* the ids one sample contributes to the Token Buffer
SampleTokens(text) == Tokenize(text) \o <<EndOfText>>

\* step 2 of the algorithm: fetch, format, tokenize and append samples until
\* the buffer holds seq_length tokens, the source is exhausted (finite mode)
\* or formatting fails
RECURSIVE Fill(_, _, _, _, _, _)
Fill(d, L, inf, buf, cur, cons) ==
    IF Len(buf) >= L
    THEN [outcome |-> "ready", buf |-> buf, cur |-> cur, cons |-> cons]
    ELSE IF ~inf /\ cur >= DatasetLen(d)
    THEN [outcome |-> "ended", buf |-> buf, cur |-> cur, cons |-> cons]
    ELSE LET s == GetItem(d, cur)
             t == prepare_sample_text(s.val) IN
         IF s.err # ""
         THEN [outcome |-> s.err, buf |-> buf, cur |-> cur, cons |-> cons]
         ELSE IF t.err # ""
         THEN [outcome |-> t.err, buf |-> buf, cur |-> cur, cons |-> cons]
         ELSE Fill(d, L, inf, buf \o SampleTokens(t.text),
                   Advance(cur, DatasetLen(d), inf), cons + 1)

\* step 3: the block sliced off the front of the buffer
BlockKeepsShort(buf, L) ==
    [input_ids |-> SubSeq(buf, 1, L - 1),
     labels |-> SubSeq(buf, 1, L - 1),
     attention_mask |-> [i \in 1..L |-> 1]]

Block(buf, L) ==
    [input_ids |-> SubSeq(buf, 1, L),
     labels |-> SubSeq(buf, 1, L),
     attention_mask |-> [i \in 1..L |-> 1]]

\* step 3: what stays in the buffer for the next block
RemainderDropped(buf, L) == <<>>

Remainder(buf, L) == SubSeq(buf, L + 1, Len(buf))

\* one pull of the training loop: a block, end-of-stream, or the error raised
Pull ==
    /\ status = "open"
    /\ Len(emitted) < MaxPulls
    /\ LET r == Fill(data, seq_length, infinite, buffer, cursor, consumed) IN
       /\ cursor' = r.cur
       /\ consumed' = r.cons
       /\ IF r.outcome = "ready"
          THEN /\ emitted' = Append(emitted, Block(r.buf, seq_length))
               /\ buffer' = Remainder(r.buf, seq_length)
               /\ status' = "open"
          ELSE /\ emitted' = emitted
               /\ buffer' = r.buf
               /\ status' = r.outcome
    /\ UNCHANGED <<srcVars, seq_length, infinite, savVars>>

-----------------------------------------------------------------------------
(* Checkpoint callback: SavePeftModelCallback.on_save *)

\* transformers.trainer_utils.PREFIX_CHECKPOINT_DIR
PREFIX_CHECKPOINT_DIR == <<"c", "h", "e", "c", "k", "p", "o", "i", "n", "t">>

\* the file name on_save looks for and removes
FULL_WEIGHTS == "pytorch_model.bin"

\* what save_pretrained may leave in the checkpoint directory
FileNames == {"adapter_model.bin", FULL_WEIGHTS}

\* save_steps default of ScriptArguments
SAVE_STEPS == 10

OutputDirs == {<<"o">>, <<"o", "/">>, <<"r", "/", "o">>}

Digit(n) == <<"0", "1", "2", "3", "4", "5", "6", "7", "8", "9">>[n + 1]

\* str(n) for n >= 0, as the f-string formats state.global_step
RECURSIVE IntToStr(_)
IntToStr(n) == IF n < 10 THEN <<Digit(n)>> ELSE IntToStr(n \div 10) \o <<Digit(n % 10)>>

\* f"{PREFIX_CHECKPOINT_DIR}-{state.global_step}"
CheckpointNameNoStep(step) == PREFIX_CHECKPOINT_DIR

CheckpointName(step) == PREFIX_CHECKPOINT_DIR \o <<"-">> \o IntToStr(step)

\* os.path.join(a, b) on POSIX
path_join(a, b) ==
    IF Len(b) > 0 /\ b[1] = "/" THEN b
    ELSE IF Len(a) = 0 \/ a[Len(a)] = "/" THEN a \o b
    ELSE a \o <<"/">> \o b

NoSave ==
    [called |-> FALSE, step |-> 0, path |-> <<>>, before |-> {},
     saveErr |-> "", listed |-> FALSE, listing |-> {}, vanished |-> FALSE,
     removeErr |-> "", removed |-> {}, raised |-> "", returned |-> FALSE]

\* on_save as written: the removal follows the listing without a re-check
\* and without an exception handler.  env is what the environment does during
\* the call: the error save_pretrained raises ("" for none), the files it
\* writes, whether another process deletes the full-weight file between
\* os.listdir and os.remove, and the error os.remove meets ("" for none).
on_save_swallow(disk, dir, step, env) ==
    LET path == path_join(dir, CheckpointName(step))
        afterSave == disk \cup {<<path, f>> : f \in env.written}
        listing == {f \in FileNames : <<path, f>> \in afterSave}
        rec == [NoSave EXCEPT !.called = TRUE, !.step = step, !.path = path,
                              !.before = disk, !.saveErr = env.saveErr,
                              !.listed = TRUE, !.listing = listing]
    IN  IF FULL_WEIGHTS \in listing
        THEN [fs |-> afterSave \ {<<path, FULL_WEIGHTS>>},
              rec |-> [rec EXCEPT !.removed = {<<path, FULL_WEIGHTS>>},
                                  !.returned = TRUE]]
        ELSE [fs |-> afterSave, rec |-> [rec EXCEPT !.returned = TRUE]]

on_save_remove_all(disk, dir, step, env) ==
    LET path == path_join(dir, CheckpointName(step))
        afterSave == disk \cup {<<path, f>> : f \in env.written}
        listing == {f \in FileNames : <<path, f>> \in afterSave}
        gone == {x \in afterSave : x[2] = FULL_WEIGHTS}
        rec == [NoSave EXCEPT !.called = TRUE, !.step = step, !.path = path,
                              !.before = disk, !.saveErr = env.saveErr]
    IN  IF env.saveErr # ""
        THEN [fs |-> afterSave, rec |-> [rec EXCEPT !.raised = env.saveErr]]
        ELSE [fs |-> afterSave \ gone,
              rec |-> [rec EXCEPT !.listed = TRUE, !.listing = listing,
                                  !.removed = gone, !.returned = TRUE]]

on_save(disk, dir, step, env) ==
    LET path == path_join(dir, CheckpointName(step))
        afterSave == disk \cup {<<path, f>> : f \in env.written}
        listing == {f \in FileNames : <<path, f>> \in afterSave}
        rec == [NoSave EXCEPT !.called = TRUE, !.step = step, !.path = path,
                              !.before = disk, !.saveErr = env.saveErr]
        listed == [rec EXCEPT !.listed = TRUE, !.listing = listing]
    IN  IF env.saveErr # ""
        THEN [fs |-> afterSave, rec |-> [rec EXCEPT !.raised = env.saveErr]]
        ELSE IF FULL_WEIGHTS \notin listing
        THEN [fs |-> afterSave, rec |-> [listed EXCEPT !.returned = TRUE]]
        ELSE IF env.vanished
        THEN [fs |-> afterSave \ {<<path, FULL_WEIGHTS>>},
              rec |-> [listed EXCEPT !.vanished = TRUE,
                                     !.raised = "FileNotFoundError"]]
        ELSE IF env.removeErr # ""
        THEN [fs |-> afterSave,
              rec |-> [listed EXCEPT !.removeErr = env.removeErr,
                                     !.raised = env.removeErr]]
        ELSE [fs |-> afterSave \ {<<path, FULL_WEIGHTS>>},
              rec |-> [listed EXCEPT !.removed = {<<path, FULL_WEIGHTS>>},
                                     !.returned = TRUE]]

SaveEnvs ==
    [saveErr : {"", "CheckpointWriteError", "OSError"},
     written : SUBSET FileNames,
     vanished : BOOLEAN,
     removeErr : {"", "PermissionError"}]

\* one optimizer update of the training loop
TrainStep ==
    /\ global_step < MaxStep
    /\ global_step' = global_step + 1
    /\ UNCHANGED <<srcVars, strVars, output_dir, fs, lastSave>>

\* the trainer's save event at a multiple of save_steps
OnSave ==
    /\ global_step > 0
    /\ global_step % SAVE_STEPS = 0
    /\ \E env \in SaveEnvs :
         LET r == on_save(fs, output_dir, global_step, env) IN
         /\ fs' = r.fs
         /\ lastSave' = r.rec
    /\ UNCHANGED <<srcVars, strVars, output_dir, global_step>>

-----------------------------------------------------------------------------
(* Specifications *)

SourceIdle ==
    /\ file = [kind |-> "invalid", items |-> <<>>]
    /\ data = NoData
    /\ loaded = FALSE
    /\ loadErr = ""
    /\ atResult = NoAt
    /\ fmtResult = NoFmt

StreamIdle ==
    /\ seq_length = SEQ_LENGTH
    /\ infinite = TRUE
    /\ cursor = 0
    /\ buffer = <<>>
    /\ emitted = <<>>
    /\ status = "open"
    /\ consumed = 0

SaveIdle ==
    /\ output_dir = <<"o">>
    /\ global_step = 0
    /\ fs = {}
    /\ lastSave = NoSave

\* before JSONDataset("data.json"): any file content
InitSource ==
    /\ file \in FileContents
    /\ data = NoData
    /\ loaded = FALSE
    /\ loadErr = ""
    /\ atResult = NoAt
    /\ fmtResult = NoFmt
    /\ StreamIdle
    /\ SaveIdle

NextSource ==
    \/ Load
    \/ \E idx \in Indices : At(idx)
    \/ \E idx \in Indices : Format(idx)

SpecSource == InitSource /\ [][NextSource]_vars

\* after get_dataset over a non-empty array: a fresh stream
InitStream ==
    /\ file \in {f \in FileContents : f.kind = "array" /\ Len(f.items) > 0}
    /\ data = file
    /\ loaded = TRUE
    /\ loadErr = ""
    /\ atResult = NoAt
    /\ fmtResult = NoFmt
    /\ seq_length \in SeqLengths
    /\ infinite \in BOOLEAN
    /\ cursor = 0
    /\ buffer = <<>>
    /\ emitted = <<>>
    /\ status = "open"
    /\ consumed = 0
    /\ SaveIdle

NextStream == Pull

SpecStream == InitStream /\ [][NextStream]_vars

\* the trainer at step 0
InitSave ==
    /\ SourceIdle
    /\ StreamIdle
    /\ output_dir \in OutputDirs
    /\ global_step = 0
    /\ fs \in {{}, {<<output_dir, FULL_WEIGHTS>>}}
    /\ lastSave = NoSave

NextSave == TrainStep \/ OnSave

SpecSave == InitSave /\ [][NextSave]_vars

-----------------------------------------------------------------------------
(* Helpers of the properties *)

RECURSIVE Flatten(_)
Flatten(blocks) ==
    IF blocks = <<>> THEN <<>>
    ELSE Head(blocks).input_ids \o Flatten(Tail(blocks))

\* tokenize(format(sample_0)) + [end_of_text] + ... for the first k samples of
\* the source, in source order
RECURSIVE ExpectedTokens(_)
ExpectedTokens(k) ==
    IF k = 0 THEN <<>>
    ELSE ExpectedTokens(k - 1)
         \o Tokenize(prepare_sample_text(data.items[k]).text) \o <<EndOfText>>

\* the components of a POSIX path
RECURSIVE Components(_)
Components(path) ==
    IF path = <<>> THEN <<>>
    ELSE IF Head(path) = "/" THEN Components(Tail(path))
    ELSE LET P == {i \in 1..Len(path) : path[i] = "/"}
             cut == IF P = {} THEN Len(path) + 1
                    ELSE CHOOSE i \in P : \A j \in P : i <= j
         IN <<SubSeq(path, 1, cut - 1)>> \o Components(SubSeq(path, cut, Len(path)))

DigitChars == {Digit(n) : n \in 0..9}

DigitVal(c) == CHOOSE n \in 0..9 : Digit(n) = c

\* the number a decimal numeral denotes, -1 for anything else
RECURSIVE ParseNat(_)
ParseNat(str) ==
    IF str = <<>> \/ \E i \in 1..Len(str) : str[i] \notin DigitChars THEN -1
    ELSE IF Len(str) = 1 THEN DigitVal(str[1])
    ELSE 10 * ParseNat(SubSeq(str, 1, Len(str) - 1)) + DigitVal(str[Len(str)])

-----------------------------------------------------------------------------
(* Properties *)

\* C1: every block the stream has emitted has ids, labels and attention mask
\* of length exactly seq_length, labels equal to the ids, and a mask of ones.
C1_BlocksUniform ==
    \A i \in 1..Len(emitted) :
        /\ Len(emitted[i].input_ids) = seq_length
        /\ Len(emitted[i].labels) = seq_length
        /\ Len(emitted[i].attention_mask) = seq_length
        /\ emitted[i].labels = emitted[i].input_ids
        /\ \A j \in 1..seq_length : emitted[i].attention_mask[j] = 1

C1_Witness ==
    /\ Len(emitted) >= 3
    /\ seq_length > 1
    /\ consumed > Len(data.items)

C3_InfiniteNeverStops ==
    (infinite /\ WellFormed(data)) => status = "open"

\* C8: a finite stream that has signalled end-of-stream made exactly one pass,
\* emitted the largest multiple of seq_length not exceeding the pass's token
\* count, and holds the unemitted remainder, shorter than seq_length.
C8_FinitePass ==
    LET total == Len(ExpectedTokens(Len(data.items))) IN
    /\ (~infinite /\ status = "ended") =>
          /\ consumed = Len(data.items)
          /\ cursor = Len(data.items)
          /\ Len(Flatten(emitted)) = (total \div seq_length) * seq_length
          /\ Len(buffer) = total % seq_length
          /\ Len(buffer) < seq_length
    /\ ~infinite => consumed <= Len(data.items)

C8_Witness ==
    /\ ~infinite
    /\ status = "ended"
    /\ Len(emitted) >= 2
    /\ buffer # <<>>

\* C7 as claimed: formatting a record that carries query and response never
\* fails and yields "Question: " + query + "\n\nAnswer: " + response.
C7_FormatOfSample ==
    (fmtResult.called /\ IsSample(fmtResult.sample)) =>
        /\ fmtResult.err = ""
        /\ fmtResult.text = FormattedText(fmtResult.sample)

\* C9 as claimed: at(index) fails with IndexError for every index outside
\* [0, length), negative indices included.
C9_OutsideRangeFails ==
    (atResult.called /\ data.kind = "array"
       /\ atResult.idx \notin 0..(Len(data.items) - 1)) =>
        atResult.err = "IndexError"

\* C9 amended: the length is that of the loaded array; at(index) returns the
\* sample at index for index in [0, length), the sample at length + index for
\* index in [-length, 0), and fails with IndexError for every other index.
C9_PythonIndexing ==
    (loaded /\ data.kind = "array") =>
        LET n == Len(file.items) IN
        /\ DatasetLen(data) = n
        /\ atResult.called =>
             IF atResult.idx \in 0..(n - 1)
             THEN atResult.err = "" /\ atResult.val = file.items[atResult.idx + 1]
             ELSE IF atResult.idx \in (-n)..(-1)
             THEN atResult.err = ""
                  /\ atResult.val = file.items[n + atResult.idx + 1]
             ELSE atResult.err = "IndexError"

C9_Witness ==
    /\ atResult.called
    /\ data.kind = "array"
    /\ Len(data.items) = 2
    /\ atResult.idx = -2
    /\ atResult.err = ""
    /\ atResult.val = data.items[1]
    /\ data.items[1] # data.items[2]

\* C10 as claimed: a source is only ever constructed from an array of objects
\* that each carry query and response; anything else fails at load.
C10_LoadValidates ==
    loaded => WellFormed(file)

\* C4: on_save saves under output_dir/"checkpoint-<step>"; no file other than
\* the full-weight file of that directory ever disappears; when the listing
\* holds the full-weight file and on_save returns, exactly that file was
\* removed; when the listing does not hold it, nothing was removed.
C4_SavePathAndCleanup ==
    lastSave.called =>
        LET comps == Components(lastSave.path)
            name == comps[Len(comps)]
            k == Len(PREFIX_CHECKPOINT_DIR) + 1
            target == <<lastSave.path, FULL_WEIGHTS>>
        IN
        /\ comps = Components(output_dir) \o <<name>>
        /\ SubSeq(name, 1, k) = PREFIX_CHECKPOINT_DIR \o <<"-">>
        /\ ParseNat(SubSeq(name, k + 1, Len(name))) = lastSave.step
        /\ lastSave.step <= global_step
        /\ \A x \in fs \ lastSave.before : x[1] = lastSave.path
        /\ lastSave.before \ fs \subseteq {target}
        /\ lastSave.removed \subseteq {target}
        /\ (lastSave.returned /\ FULL_WEIGHTS \in lastSave.listing) =>
              (lastSave.removed = {target} /\ target \notin fs)
        /\ (lastSave.listed /\ FULL_WEIGHTS \notin lastSave.listing) =>
              (lastSave.removed = {} /\ lastSave.before \subseteq fs
               /\ lastSave.returned)

C4_Witness ==
    /\ lastSave.called
    /\ lastSave.returned
    /\ lastSave.step = 20
    /\ output_dir = <<"o", "/">>
    /\ lastSave.removed = {<<lastSave.path, FULL_WEIGHTS>>}
    /\ <<lastSave.path, "adapter_model.bin">> \in fs
    /\ <<output_dir, FULL_WEIGHTS>> \in fs
    /\ \E x \in fs : x[2] = FULL_WEIGHTS /\ x[1] # lastSave.path /\ x[1] # output_dir

\* C5: when save_pretrained fails, on_save raises that same error, has not
\* listed the directory, has removed nothing and has returned no control.
C5_SaveFailurePropagates ==
    (lastSave.called /\ lastSave.saveErr # "") =>
        /\ lastSave.raised = lastSave.saveErr
        /\ ~lastSave.listed
        /\ lastSave.removed = {}
        /\ lastSave.before \subseteq fs
        /\ ~lastSave.returned

C5_Witness ==
    /\ lastSave.called
    /\ lastSave.saveErr = "OSError"
    /\ lastSave.raised = "OSError"
    /\ <<lastSave.path, FULL_WEIGHTS>> \in fs

\* C6 as claimed: a removal that fails because the full-weight file is gone
\* (it disappeared between listing and removal) is swallowed and on_save
\* returns; a removal that fails for another reason is raised to the caller.
C6_AbsenceSwallowed ==
    lastSave.called =>
        /\ lastSave.vanished => (lastSave.returned /\ lastSave.raised = "")
        /\ lastSave.removeErr # "" =>
              (lastSave.raised = lastSave.removeErr /\ ~lastSave.returned)

====
